---- MODULE Spec2Model ----
(***************************************************************************)
(* A model of src/app.py: the Flask handlers of the goal / task / plan     *)
(* service and the record store (supabase tables) they read and write,     *)
(* and the free-standing plan distributor generate_daily_plans.            *)
(*                                                                         *)
(* Two specifications:                                                     *)
(*   SpecGen  generate_daily_plans run on bounded inputs, one random draw  *)
(*            per step;                                                    *)
(*   Spec     the handlers as concurrent requests, one store call per      *)
(*            step (the Flask server is threaded and supabase-py has no    *)
(*            transaction, so requests interleave between store calls).    *)
(***************************************************************************)
EXTENDS Integers, Sequences, FiniteSets, TLC

VARIABLES
    \* ---- generate_daily_plans (src/app.py:139-162)
    gpc,            \* position: "coverage", "surplus", "points", "returned", "raised"
    gtasks,         \* the tasks argument: a sequence of task rows [id |-> ..]
    gdays,          \* the days argument
    daily_plans,    \* the list being built
    gleft,          \* iterations left of the surplus loop, range(remaining_tasks)
    gexc,           \* the exception raised ("none" while there is none)
    \* ---- the store: one sequence of rows per table, in insertion order
    goals, tasks, tasks_ids, plans, plans_ids, goals_relations, progress,
    \* ---- requests in flight
    pc,             \* per request slot: the store call it is about to make, or "idle"
    req,            \* per slot: the request (endpoint and JSON body; history: the
                    \* goals accepted before it was received)
    loc,            \* per slot: the handler's local variables
    resp,           \* per slot: the response (status, body, exception raised)
    \* ---- history (not read by any handler)
    tasks_ids_by,   \* per tasks_ids row: the goal id created by the call that wrote it
    plans_ids_by,   \* per plans_ids row: the goal id created by the call that wrote it
    accepted_for,   \* goals whose handles were passed to an accept_plan that returned 200
    submitted       \* per goal id: the total_points of the submit calls that returned 200

genvars == <<gpc, gtasks, gdays, daily_plans, gleft, gexc>>
storevars == <<goals, tasks, tasks_ids, plans, plans_ids, goals_relations, progress>>
histvars == <<tasks_ids_by, plans_ids_by, accepted_for, submitted>>
reqvars == <<pc, req, loc, resp>>
vars == <<genvars, storevars, reqvars, histvars>>

------------------------------------------------------------------------------
\* Bounds of the model.
MaxTasks == 3       \* longest task list handed to generate_daily_plans
MaxDays == 2        \* largest horizon handed to generate_daily_plans
MaxRows == 3        \* goals, goals_relations and progress rows, all together

\* Program constants.
MinPoint == 1       \* random.randint(1, 5)
MaxPoint == 5
FirstDay == 1       \* range(1, days + 1), random.randint(1, days)
DefaultDays == 7     \* def generate_daily_plans(goal, tasks, days=7)
Accepted == 1       \* update({"status": 1})

------------------------------------------------------------------------------
\* Helpers on sequences.
Range(s) == {s[i] : i \in DOMAIN s}

------------------------------------------------------------------------------
\* generate_daily_plans(goal, tasks, days)

GenGoalId == 1

\* task_ids = [int(task["id"]) for task in tasks]
TaskIds(ts) == [i \in DOMAIN ts |-> ts[i].id]

\* random.choice(seq): any element; IndexError on an empty sequence
RandomChoice(s) == Range(s)

\* random.randint(a, b): any integer of a..b; ValueError when the range is empty
RandInt(a, b) == a..b

\* the task lists the model hands in: ids 11, 12, ... (ids are not positions)
GenTaskLists == {[i \in 1..n |-> [id |-> 10 + i]] : n \in 0..MaxTasks}
GenDays == (0 - 1)..MaxDays

GenInit ==
    /\ gtasks \in GenTaskLists
    /\ gdays \in GenDays
    /\ gpc = "coverage"
    /\ daily_plans = <<>>
    /\ gleft = 0
    /\ gexc = "none"

RemainingTasksNoDays(ts, days) == Len(TaskIds(ts))
\* remaining_tasks = len(task_ids) - days; range(n) is empty for n <= 0
RemainingTasks(ts, days) == Len(TaskIds(ts)) - days
RangeLen(n) == IF n > 0 THEN n ELSE 0

CoverageDayFromZero(n) == n
\* the day of the iteration that follows n iterations of range(1, days + 1)
CoverageDay(n) == n + FirstDay

\* for day in range(1, days + 1): one iteration
GenCoverage ==
    /\ gpc = "coverage"
    /\ Len(daily_plans) < gdays
    /\ IF RandomChoice(TaskIds(gtasks)) = {}
       THEN /\ gpc' = "raised"
            /\ gexc' = "IndexError"
            /\ UNCHANGED <<daily_plans, gleft>>
       ELSE /\ \E task_id \in RandomChoice(TaskIds(gtasks)) :
                 daily_plans' = Append(daily_plans,
                     [goal_id |-> GenGoalId, day |-> CoverageDay(Len(daily_plans)),
                      task_id |-> task_id])
            /\ UNCHANGED <<gpc, gexc, gleft>>
    /\ UNCHANGED <<gtasks, gdays>>
    /\ UNCHANGED <<storevars, reqvars, histvars>>

\* the coverage loop is over: remaining_tasks is computed
GenCoverageDone ==
    /\ gpc = "coverage"
    /\ Len(daily_plans) >= gdays
    /\ gpc' = "surplus"
    /\ gleft' = RangeLen(RemainingTasks(gtasks, gdays))
    /\ UNCHANGED <<gtasks, gdays, daily_plans, gexc>>
    /\ UNCHANGED <<storevars, reqvars, histvars>>

\* for _ in range(remaining_tasks): one iteration
GenSurplus ==
    /\ gpc = "surplus"
    /\ gleft > 0
    /\ IF RandInt(FirstDay, gdays) = {}
       THEN /\ gpc' = "raised"
            /\ gexc' = "ValueError"
            /\ UNCHANGED <<daily_plans, gleft>>
       ELSE IF RandomChoice(TaskIds(gtasks)) = {}
       THEN /\ gpc' = "raised"
            /\ gexc' = "IndexError"
            /\ UNCHANGED <<daily_plans, gleft>>
       ELSE /\ \E day \in RandInt(FirstDay, gdays), task_id \in RandomChoice(TaskIds(gtasks)) :
                 daily_plans' = Append(daily_plans,
                     [goal_id |-> GenGoalId, day |-> day, task_id |-> task_id])
            /\ gleft' = gleft - 1
            /\ UNCHANGED <<gpc, gexc>>
    /\ UNCHANGED <<gtasks, gdays>>
    /\ UNCHANGED <<storevars, reqvars, histvars>>

GenSurplusDone ==
    /\ gpc = "surplus"
    /\ gleft = 0
    /\ gpc' = "points"
    /\ gleft' = Len(daily_plans)
    /\ UNCHANGED <<gtasks, gdays, daily_plans, gexc>>
    /\ UNCHANGED <<storevars, reqvars, histvars>>

PointDrawFromZero == RandInt(0, MaxPoint)
\* plan['points'] = random.randint(1, 5)
PointDraw == RandInt(MinPoint, MaxPoint)

\* for plan in daily_plans: one iteration (gleft plans are still without points)
GenPoints ==
    /\ gpc = "points"
    /\ gleft > 0
    /\ LET i == Len(daily_plans) - gleft + 1
           plan == daily_plans[i]
       IN  \E pt \in PointDraw :
              daily_plans' = [daily_plans EXCEPT ![i] =
                  [goal_id |-> plan.goal_id, day |-> plan.day,
                   task_id |-> plan.task_id, points |-> pt]]
    /\ gleft' = gleft - 1
    /\ UNCHANGED <<gpc, gtasks, gdays, gexc>>
    /\ UNCHANGED <<storevars, reqvars, histvars>>

\* return daily_plans
GenReturn ==
    /\ gpc = "points"
    /\ gleft = 0
    /\ gpc' = "returned"
    /\ UNCHANGED <<gtasks, gdays, daily_plans, gleft, gexc>>
    /\ UNCHANGED <<storevars, reqvars, histvars>>

------------------------------------------------------------------------------
\* The store and the requests.

Procs == {1, 2}     \* request slots: the requests that can be in flight together

NoLoc == [op |-> "none"]
NoReq == [op |-> "none", body |-> [none |-> 0], after |-> {}]
NoResp == [status |-> 0, body |-> [none |-> 0], exc |-> "none"]

\* jsonify(body), 200
Ok(body) == [status |-> 200, body |-> body, exc |-> "none"]
\* jsonify({"error": "Invalid data format"}), 400
InvalidData == [status |-> 400, body |-> [error |-> "Invalid data format"], exc |-> "none"]
\* str(e) of the exceptions the model raises: [0] of an empty list, random.choice
\* of an empty list (an IndexError too), a failure of the store
Message(e) ==
    CASE e = "IndexError" -> "list index out of range"
      [] e = "EmptyChoice" -> "Cannot choose from an empty sequence"
      [] OTHER -> "store failure"
\* except Exception as e: jsonify({"error": str(e)}), 500
Caught(e) ==
    [status |-> 500, body |-> [error |-> Message(e)],
     exc |-> IF e = "EmptyChoice" THEN "IndexError" ELSE e]
\* an exception no handler catches (check_goal has no try): Flask answers 500
Uncaught(e) == [status |-> 500, body |-> [error |-> "Internal Server Error"], exc |-> e]

\* created_at of the next row: the store's clock, which only moves forward
Now == Len(goals) + Len(tasks) + Len(tasks_ids) + Len(plans) + Len(plans_ids)
       + Len(goals_relations) + Len(progress) + 1

\* .order("created_at", desc=True).limit(1) ... ["data"][0] on a non-empty result
Latest(rows) == CHOOSE r \in Range(rows) : \A s \in Range(rows) : s.created_at <= r.created_at

\* the request bodies the model sends
\* the k-th plan request asks for a goal of its own, with no task or one task
GoalInput(k) == [goal |-> IF k % 2 = 1 THEN "computer" ELSE "bike", goal_points |-> 100 * k]
TaskInput(k) == IF k % 2 = 1 THEN [task |-> "cleaning", point |-> 5]
                ELSE [task |-> "wash dishes", point |-> 2]
Received == Len(goals) + Cardinality({q \in Procs : pc[q] = "s_goal"})
GoalInputs == {GoalInput(Received + 1)}
TaskInputs == {<<>>, <<TaskInput(Received + 1)>>}
SuggestBodies ==
    {[goal |-> g.goal, goal_points |-> g.goal_points, tasks |-> ts] : g \in GoalInputs, ts \in TaskInputs}
    \cup {[goal |-> "computer"]}
AcceptBodies ==
    {[plans_ids_id |-> a, tasks_ids_id |-> b] : a \in {1, 2}, b \in {1, 2}}
    \cup {[plans_ids_id |-> 1]}
TodayBodies == {[day |-> d] : d \in {1, 2}} \cup {[date |-> 1]}
SubmitBodies ==
    {[day |-> 1, total_points |-> 5], [day |-> 2, total_points |-> 3], [day |-> 1]}

StoreInit ==
    /\ goals = <<>> /\ tasks = <<>> /\ tasks_ids = <<>> /\ plans = <<>>
    /\ plans_ids = <<>> /\ goals_relations = <<>> /\ progress = <<>>
    /\ pc = [p \in Procs |-> "idle"]
    /\ req = [p \in Procs |-> NoReq]
    /\ loc = [p \in Procs |-> NoLoc]
    /\ resp = [p \in Procs |-> NoResp]
    /\ tasks_ids_by = <<>> /\ plans_ids_by = <<>>
    /\ accepted_for = {}
    /\ submitted = [g \in 1..MaxRows |-> 0]

\* The slots are interchangeable: a request takes the lowest free one. A slot
\* keeps its response until it is closed; responses are closed before the next
\* request is taken up (no handler reads them).
FreeSlot(p) ==
    /\ pc[p] = "idle"
    /\ \A q \in Procs : q < p => pc[q] # "idle"
    /\ \A q \in Procs : pc[q] # "done"

\* The endpoints that insert rows, and the requests in flight that have yet to
\* insert theirs.
Writers == {"suggest", "accept", "submit"}
WritePending == {"s_goal", "a_goal", "a_update", "a_relation", "u_goal", "u_insert"}
\* The endpoints that only read.
Readers == {"check_goal", "today", "points"}

\* The rows the bound counts, those of requests in flight included.
Rows ==
    Len(goals) + Len(goals_relations) + Len(progress)
        + Cardinality({q \in Procs : pc[q] \in WritePending})

\* A request is received while the store has room for what it may insert. Requests
\* overlap while the store is one row further from its bound; two reads, which
\* cannot affect one another, do not overlap.
HasRoom(op) ==
    LET need == IF op \in Writers THEN 1 ELSE 0
    IN  IF \A q \in Procs : pc[q] = "idle"
        THEN Rows + need <= MaxRows
        ELSE /\ Rows + need <= MaxRows - 1
             /\ op \in Readers => \A q \in Procs : req[q].op \notin Readers

\* a request arrives: request.get_json()
Receive(p, op, body, first) ==
    /\ FreeSlot(p)
    /\ HasRoom(op)
    /\ req' = [req EXCEPT ![p] = [op |-> op, body |-> body, after |-> accepted_for]]
    /\ pc' = [pc EXCEPT ![p] = first]
    /\ loc' = [loc EXCEPT ![p] = [op |-> op]]
    /\ UNCHANGED resp

\* a required field is missing: jsonify({"error": "Invalid data format"}), 400
Reject(p, op, body) ==
    /\ FreeSlot(p)
    /\ HasRoom(op)
    /\ req' = [req EXCEPT ![p] = [op |-> op, body |-> body, after |-> accepted_for]]
    /\ pc' = [pc EXCEPT ![p] = "done"]
    /\ resp' = [resp EXCEPT ![p] = InvalidData]
    /\ UNCHANGED loc

\* the handler returns
Return(p, r) ==
    /\ pc' = [pc EXCEPT ![p] = "done"]
    /\ loc' = [loc EXCEPT ![p] = NoLoc]
    /\ resp' = [resp EXCEPT ![p] = r]
    /\ UNCHANGED req

\* the handler goes on to its next store call
Goto(p, next, l) ==
    /\ pc' = [pc EXCEPT ![p] = next]
    /\ loc' = [loc EXCEPT ![p] = l]
    /\ UNCHANGED <<req, resp>>

------------------------------------------------------------------------------
\* suggest_plans_v2

SuggestHasFields(body) ==
    /\ "goal" \in DOMAIN body
    /\ "goal_points" \in DOMAIN body
    /\ "tasks" \in DOMAIN body

\* a handler that stores the goal before it looks for the other fields
SuggestRequestInsertFirst(p) ==
    /\ \E body \in SuggestBodies :
          IF SuggestHasFields(body)
          THEN Receive(p, "suggest", body, "s_goal") /\ UNCHANGED goals
          ELSE /\ Reject(p, "suggest", body)
               /\ goals' = Append(goals, [id |-> Len(goals) + 1, item_name |-> body.goal,
                                          item_points |-> 0, status |-> 0, created_at |-> Now])
    /\ UNCHANGED <<genvars, tasks, tasks_ids, plans, plans_ids, goals_relations, progress, histvars>>

SuggestRequest(p) ==
    /\ \E body \in SuggestBodies :
          IF SuggestHasFields(body)
          THEN Receive(p, "suggest", body, "s_goal")
          ELSE Reject(p, "suggest", body)
    /\ UNCHANGED <<genvars, storevars, histvars>>

\* the goals row of a request: {"item_name": goal, "item_points": goal_points};
\* status is the column's default, which is not 1
GoalRow(body) ==
    [id |-> Len(goals) + 1, item_name |-> body.goal, item_points |-> body.goal_points,
     status |-> 0, created_at |-> Now]

\* supabase.table("goals").insert(...)
SuggestInsertGoal(p) ==
    /\ pc[p] = "s_goal"
    /\ goals' = Append(goals, GoalRow(req[p].body))
    /\ Goto(p, "s_tasks", [op |-> "suggest", goal |-> GoalRow(req[p].body)])
    /\ UNCHANGED <<genvars, tasks, tasks_ids, plans, plans_ids, goals_relations, progress, histvars>>

TaskRowsNextGoal(ts, goal) ==
    [i \in DOMAIN ts |->
        [id |-> Len(tasks) + i, task |-> ts[i].task, point |-> ts[i].point, goal_id |-> goal.id + 1]]
\* the tasks rows of a request, owned by the goal just created
TaskRows(ts, goal) ==
    [i \in DOMAIN ts |->
        [id |-> Len(tasks) + i, task |-> ts[i].task, point |-> ts[i].point, goal_id |-> goal.id]]

\* supabase.table("tasks").insert([...]); for an empty list the store either
\* returns no row or raises (StoreError)
SuggestInsertTasks(p) ==
    /\ pc[p] = "s_tasks"
    /\ LET rows == TaskRows(req[p].body.tasks, loc[p].goal)
       IN  /\ tasks' = tasks \o rows
           /\ Goto(p, "s_tasks_ids", [op |-> "suggest", goal |-> loc[p].goal, tasks |-> rows])
    /\ UNCHANGED <<genvars, goals, tasks_ids, plans, plans_ids, goals_relations, progress, histvars>>

\* {"tasks_ids": [task["id"] for task in tasks_response_dict]}
TasksIdsRow(rows) == [id |-> Len(tasks_ids) + 1, tasks_ids |-> TaskIds(rows)]

\* generate_daily_plans_tmp(goal, tasks): every result the random choices allow
GenerateDailyPlansTmp(goal, ts) ==
    {<<[day |-> 1, plans_today |-> <<t1>>], [day |-> 2, plans_today |-> <<t2>>]>> :
        t1 \in RandomChoice(ts), t2 \in RandomChoice(ts)}

\* supabase.table("tasks_ids").insert(...), then generate_daily_plans_tmp
SuggestInsertTasksIds(p) ==
    /\ pc[p] = "s_tasks_ids"
    /\ tasks_ids' = Append(tasks_ids, TasksIdsRow(loc[p].tasks))
    /\ tasks_ids_by' = Append(tasks_ids_by, loc[p].goal.id)
    /\ IF GenerateDailyPlansTmp(loc[p].goal, loc[p].tasks) = {}
       THEN Return(p, Caught("EmptyChoice"))
       ELSE \E ps \in GenerateDailyPlansTmp(loc[p].goal, loc[p].tasks) :
               Goto(p, "s_plans",
                    [op |-> "suggest", goal |-> loc[p].goal, tasks |-> loc[p].tasks,
                     tasks_ids_id |-> TasksIdsRow(loc[p].tasks).id, plans |-> ps])
    /\ UNCHANGED <<genvars, goals, tasks, plans, plans_ids, goals_relations, progress,
                   plans_ids_by, accepted_for, submitted>>

RECURSIVE PlansProcessed(_)
\* the flat map: one {"day", "task_id"} per task of each day's plans_today
PlansProcessed(ps) ==
    IF ps = <<>> THEN <<>>
    ELSE [i \in DOMAIN Head(ps).plans_today |->
             [day |-> Head(ps).day, task_id |-> Head(ps).plans_today[i].id]]
         \o PlansProcessed(Tail(ps))

\* the plans rows as the store returns them, with their new ids
PlanRows(processed) ==
    [i \in DOMAIN processed |->
        [id |-> Len(plans) + i, day |-> processed[i].day, task_id |-> processed[i].task_id]]

\* supabase.table("plans").insert(plans_processed)
SuggestInsertPlans(p) ==
    /\ pc[p] = "s_plans"
    /\ LET rows == PlanRows(PlansProcessed(loc[p].plans))
       IN  /\ plans' = plans \o rows
           /\ Goto(p, "s_plans_ids",
                   [op |-> "suggest", goal |-> loc[p].goal, tasks |-> loc[p].tasks,
                    tasks_ids_id |-> loc[p].tasks_ids_id, plans |-> loc[p].plans,
                    plan_rows |-> rows])
    /\ UNCHANGED <<genvars, goals, tasks, tasks_ids, plans_ids, goals_relations, progress, histvars>>

\* a row that lists the most recent plans rows, as many as the call inserted
PlansIdsRowLatest(rows) ==
    [id |-> Len(plans_ids) + 1, plans_ids |-> [i \in DOMAIN rows |-> Len(plans) - Len(rows) + i]]
\* {"plans_ids": [plan["id"] for plan in plans_response_dict]}
PlansIdsRow(rows) == [id |-> Len(plans_ids) + 1, plans_ids |-> [i \in DOMAIN rows |-> rows[i].id]]

\* supabase.table("plans_ids").insert(...), then the 200 response
SuggestInsertPlansIds(p) ==
    /\ pc[p] = "s_plans_ids"
    /\ plans_ids' = Append(plans_ids, PlansIdsRow(loc[p].plan_rows))
    /\ plans_ids_by' = Append(plans_ids_by, loc[p].goal.id)
    /\ Return(p, Ok([plans |-> loc[p].plans,
                     plans_ids_id |-> PlansIdsRow(loc[p].plan_rows).id,
                     tasks_ids_id |-> loc[p].tasks_ids_id]))
    /\ UNCHANGED <<genvars, goals, tasks, tasks_ids, plans, goals_relations, progress,
                   tasks_ids_by, accepted_for, submitted>>

------------------------------------------------------------------------------
\* accept_plan

AcceptHasFields(body) == "plans_ids_id" \in DOMAIN body /\ "tasks_ids_id" \in DOMAIN body

\* history: the goals whose suggest call wrote both rows the handles name
GoalsWithHandles(a, b) ==
    {g \in 1..Len(goals) :
        /\ a \in DOMAIN plans_ids_by /\ plans_ids_by[a] = g
        /\ b \in DOMAIN tasks_ids_by /\ tasks_ids_by[b] = g}

AcceptRequest(p) ==
    /\ \E body \in AcceptBodies :
          IF AcceptHasFields(body)
          THEN /\ FreeSlot(p)
               /\ HasRoom("accept")
               /\ req' = [req EXCEPT ![p] = [op |-> "accept", body |-> body, after |-> accepted_for]]
               /\ UNCHANGED resp
               /\ pc' = [pc EXCEPT ![p] = "a_goal"]
               /\ loc' = [loc EXCEPT ![p] =
                      [op |-> "accept",
                       for |-> GoalsWithHandles(body.plans_ids_id, body.tasks_ids_id)]]
          ELSE Reject(p, "accept", body)
    /\ UNCHANGED <<genvars, storevars, histvars>>

\* supabase.table("goals").select("*").order("created_at", desc=True).limit(1)
AcceptSelectGoal(p) ==
    /\ pc[p] = "a_goal"
    /\ IF goals = <<>>
       THEN Return(p, Caught("IndexError"))
       ELSE Goto(p, "a_update", [op |-> "accept", for |-> loc[p].for, goal |-> Latest(goals)])
    /\ UNCHANGED <<genvars, storevars, histvars>>

\* .update({"status": 1}).eq("id", id)
UpdateStatus(rows, id) ==
    [i \in DOMAIN rows |-> IF rows[i].id = id THEN [rows[i] EXCEPT !.status = Accepted] ELSE rows[i]]

AcceptUpdate(p) ==
    /\ pc[p] = "a_update"
    /\ goals' = UpdateStatus(goals, loc[p].goal.id)
    /\ Goto(p, "a_relation", loc[p])
    /\ UNCHANGED <<genvars, tasks, tasks_ids, plans, plans_ids, goals_relations, progress, histvars>>

\* {"goal_id": ..., "plans_ids_id": plans_ids_id, "tasks_ids_id": tasks_ids_id}
RelationRow(goal, body) ==
    [id |-> Len(goals_relations) + 1, goal_id |-> goal.id,
     plans_ids_id |-> body.plans_ids_id, tasks_ids_id |-> body.tasks_ids_id,
     created_at |-> Now]

\* supabase.table("goals_relations").insert(...), then the 200 response
AcceptInsertRelation(p) ==
    /\ pc[p] = "a_relation"
    /\ goals_relations' = Append(goals_relations, RelationRow(loc[p].goal, req[p].body))
    /\ accepted_for' = accepted_for \cup loc[p].for
    /\ Return(p, Ok([message |-> "Plan accepted"]))
    /\ UNCHANGED <<genvars, goals, tasks, tasks_ids, plans, plans_ids, progress,
                   tasks_ids_by, plans_ids_by, submitted>>

------------------------------------------------------------------------------
\* check_goal

CheckGoalRequest(p) ==
    /\ Receive(p, "check_goal", [none |-> 0], "c_goal")
    /\ UNCHANGED <<genvars, storevars, histvars>>

AcceptedGoalsNoFilter == goals
\* .select("*").eq("status", 1)
AcceptedGoals == SelectSeq(goals, LAMBDA g : g.status = Accepted)

\* ...order("created_at", desc=True).limit(1), ["data"][0], then the 200 response
CheckGoalSelect(p) ==
    /\ pc[p] = "c_goal"
    /\ IF AcceptedGoals = <<>>
       THEN Return(p, Uncaught("IndexError"))
       ELSE Return(p, Ok([goal |-> Latest(AcceptedGoals).item_name,
                          goal_points |-> Latest(AcceptedGoals).item_points]))
    /\ UNCHANGED <<genvars, storevars, histvars>>

------------------------------------------------------------------------------
\* get_today_plans

TodayRequest(p) ==
    /\ \E body \in TodayBodies :
          IF "day" \in DOMAIN body
          THEN Receive(p, "today", body, "t_goal")
          ELSE Reject(p, "today", body)
    /\ UNCHANGED <<genvars, storevars, histvars>>

TodaySelectGoal(p) ==
    /\ pc[p] = "t_goal"
    /\ IF goals = <<>>
       THEN Return(p, Caught("IndexError"))
       ELSE Goto(p, "t_relation", [op |-> "today", goal_id |-> Latest(goals).id])
    /\ UNCHANGED <<genvars, storevars, histvars>>

\* goals_relations .eq("goal_id", id)
RelationsOf(goal_id) == SelectSeq(goals_relations, LAMBDA r : r.goal_id = goal_id)

\* ....order("created_at", desc=True).limit(1), ["data"][0]
TodaySelectRelation(p) ==
    /\ pc[p] = "t_relation"
    /\ IF RelationsOf(loc[p].goal_id) = <<>>
       THEN Return(p, Caught("IndexError"))
       ELSE Goto(p, "t_plans_ids",
                 [op |-> "today", plans_ids_id |-> Latest(RelationsOf(loc[p].goal_id)).plans_ids_id])
    /\ UNCHANGED <<genvars, storevars, histvars>>

\* a read of plans_ids that takes every row, whatever the relation names
PlansIdsAnyId(id) == plans_ids
\* plans_ids .eq("id", plans_ids_id)
PlansIdsWithId(id) == SelectSeq(plans_ids, LAMBDA r : r.id = id)

TodaySelectPlansIds(p) ==
    /\ pc[p] = "t_plans_ids"
    /\ IF PlansIdsWithId(loc[p].plans_ids_id) = <<>>
       THEN Return(p, Caught("IndexError"))
       ELSE Goto(p, "t_plans",
                 [op |-> "today", plans_ids |-> PlansIdsWithId(loc[p].plans_ids_id)[1].plans_ids])
    /\ UNCHANGED <<genvars, storevars, histvars>>

\* plans .in_("id", ids).eq("day", day)
PlansToday(ids, day) == SelectSeq(plans, LAMBDA r : r.id \in Range(ids) /\ r.day = day)

TodaySelectPlans(p) ==
    /\ pc[p] = "t_plans"
    /\ LET rows == PlansToday(loc[p].plans_ids, req[p].body.day)
       IN  IF rows = <<>>
           THEN Return(p, Ok([day |-> req[p].body.day, plans_today |-> <<>>]))
           ELSE Goto(p, "t_task", [op |-> "today", rows |-> rows, plans_today |-> <<>>])
    /\ UNCHANGED <<genvars, storevars, histvars>>

\* tasks .eq("id", task_id)
TasksWithId(id) == SelectSeq(tasks, LAMBDA r : r.id = id)

\* for plan in plans_today_response_dict: one iteration
TodaySelectTask(p) ==
    /\ pc[p] = "t_task"
    /\ LET plan == Head(loc[p].rows)
           found == TasksWithId(plan.task_id)
       IN  IF found = <<>>
           THEN Return(p, Caught("IndexError"))
           ELSE LET today == Append(loc[p].plans_today,
                                    [task |-> found[1].task, point |-> found[1].point])
                IN  IF Tail(loc[p].rows) = <<>>
                    THEN Return(p, Ok([day |-> req[p].body.day, plans_today |-> today]))
                    ELSE Goto(p, "t_task",
                              [op |-> "today", rows |-> Tail(loc[p].rows), plans_today |-> today])
    /\ UNCHANGED <<genvars, storevars, histvars>>

------------------------------------------------------------------------------
\* submit

SubmitHasFields(body) == "day" \in DOMAIN body /\ "total_points" \in DOMAIN body

SubmitRequest(p) ==
    /\ \E body \in SubmitBodies :
          IF SubmitHasFields(body)
          THEN Receive(p, "submit", body, "u_goal")
          ELSE Reject(p, "submit", body)
    /\ UNCHANGED <<genvars, storevars, histvars>>

SubmitSelectGoal(p) ==
    /\ pc[p] = "u_goal"
    /\ IF goals = <<>>
       THEN Return(p, Caught("IndexError"))
       ELSE Goto(p, "u_insert", [op |-> "submit", goal_id |-> Latest(goals).id])
    /\ UNCHANGED <<genvars, storevars, histvars>>

\* {"day": day, "total_points": total_points, "goal_id": id}
ProgressRow(body, goal_id) ==
    [id |-> Len(progress) + 1, day |-> body.day, total_points |-> body.total_points,
     goal_id |-> goal_id]

\* a submit that merged into the row of the same goal and day, if there is one
SubmitInsertMerging(p) ==
    /\ pc[p] = "u_insert"
    /\ LET same == {i \in DOMAIN progress :
                       progress[i].goal_id = loc[p].goal_id /\ progress[i].day = req[p].body.day}
       IN  IF same = {}
           THEN progress' = Append(progress, ProgressRow(req[p].body, loc[p].goal_id))
           ELSE progress' = [i \in DOMAIN progress |->
                                IF i \in same
                                THEN [progress[i] EXCEPT !.total_points = req[p].body.total_points]
                                ELSE progress[i]]
    /\ submitted' = [submitted EXCEPT ![loc[p].goal_id] = @ + req[p].body.total_points]
    /\ Return(p, Ok([message |-> "Data received successfully"]))
    /\ UNCHANGED <<genvars, goals, tasks, tasks_ids, plans, plans_ids, goals_relations,
                   tasks_ids_by, plans_ids_by, accepted_for>>

\* supabase.table("progress").insert(...), then the 200 response
SubmitInsert(p) ==
    /\ pc[p] = "u_insert"
    /\ progress' = Append(progress, ProgressRow(req[p].body, loc[p].goal_id))
    /\ submitted' = [submitted EXCEPT ![loc[p].goal_id] = @ + req[p].body.total_points]
    /\ Return(p, Ok([message |-> "Data received successfully"]))
    /\ UNCHANGED <<genvars, goals, tasks, tasks_ids, plans, plans_ids, goals_relations,
                   tasks_ids_by, plans_ids_by, accepted_for>>

------------------------------------------------------------------------------
\* get_points

PointsRequest(p) ==
    /\ Receive(p, "points", [none |-> 0], "p_goal")
    /\ UNCHANGED <<genvars, storevars, histvars>>

PointsSelectGoal(p) ==
    /\ pc[p] = "p_goal"
    /\ IF goals = <<>>
       THEN Return(p, Caught("IndexError"))
       ELSE Goto(p, "p_progress", [op |-> "points", goal_id |-> Latest(goals).id])
    /\ UNCHANGED <<genvars, storevars, histvars>>

ProgressOfAnyGoal(goal_id) == progress
\* progress .eq("goal_id", id)
ProgressOf(goal_id) == SelectSeq(progress, LAMBDA r : r.goal_id = goal_id)

RECURSIVE SumPoints(_)
\* total_points = 0; for progress in ...: total_points += progress["total_points"]
SumPoints(rows) ==
    IF rows = <<>> THEN 0 ELSE SumPoints(SubSeq(rows, 1, Len(rows) - 1)) + rows[Len(rows)].total_points

\* what get_points answers for a goal
TotalPoints(goal_id) == SumPoints(ProgressOf(goal_id))

PointsSelectProgress(p) ==
    /\ pc[p] = "p_progress"
    /\ Return(p, Ok([points |-> TotalPoints(loc[p].goal_id)]))
    /\ UNCHANGED <<genvars, storevars, histvars>>

------------------------------------------------------------------------------
\* A store call raises (execute() fails): the handler's except answers 500; no
\* rollback of what the request wrote before.
StoreError(p) ==
    /\ pc[p] \notin {"idle", "done"}
    /\ Return(p, IF req[p].op = "check_goal" THEN Uncaught("APIError") ELSE Caught("APIError"))
    /\ UNCHANGED <<genvars, storevars, histvars>>

\* the response is sent and the slot is free for the next request
Close(p) ==
    /\ pc[p] = "done"
    /\ pc' = [pc EXCEPT ![p] = "idle"]
    /\ req' = [req EXCEPT ![p] = NoReq]
    /\ resp' = [resp EXCEPT ![p] = NoResp]
    /\ UNCHANGED loc
    /\ UNCHANGED <<genvars, storevars, histvars>>

------------------------------------------------------------------------------
Init ==
    /\ StoreInit
    /\ gtasks = <<>> /\ gdays = 0 /\ gpc = "returned"
    /\ daily_plans = <<>> /\ gleft = 0 /\ gexc = "none"

Next ==
    \E p \in Procs :
        \/ SuggestRequest(p)
        \/ SuggestInsertGoal(p)
        \/ SuggestInsertTasks(p)
        \/ SuggestInsertTasksIds(p)
        \/ SuggestInsertPlans(p)
        \/ SuggestInsertPlansIds(p)
        \/ AcceptRequest(p)
        \/ AcceptSelectGoal(p)
        \/ AcceptUpdate(p)
        \/ AcceptInsertRelation(p)
        \/ CheckGoalRequest(p)
        \/ CheckGoalSelect(p)
        \/ TodayRequest(p)
        \/ TodaySelectGoal(p)
        \/ TodaySelectRelation(p)
        \/ TodaySelectPlansIds(p)
        \/ TodaySelectPlans(p)
        \/ TodaySelectTask(p)
        \/ SubmitRequest(p)
        \/ SubmitSelectGoal(p)
        \/ SubmitInsert(p)
        \/ PointsRequest(p)
        \/ PointsSelectGoal(p)
        \/ PointsSelectProgress(p)
        \/ StoreError(p)
        \/ Close(p)

Spec == Init /\ [][Next]_vars

InitGen == GenInit /\ StoreInit

NextGen ==
    \/ GenCoverage
    \/ GenCoverageDone
    \/ GenSurplus
    \/ GenSurplusDone
    \/ GenPoints
    \/ GenReturn

SpecGen == InitGen /\ [][NextGen]_vars

------------------------------------------------------------------------------
\* Properties of generate_daily_plans (checked under SpecGen).

Returned == gpc = "returned"
ValidInput == gtasks # <<>> /\ gdays > 0

\* C1: for a non-empty task list and a horizon H > 0, whatever the random
\* draws, the returned list has at least one entry for each day 1..H.
C1_EveryDayCovered ==
    (Returned /\ ValidInput) =>
        \A d \in 1..gdays : \E i \in DOMAIN daily_plans : daily_plans[i].day = d

\* a run with more tasks than days has returned, each day of the horizon planned
C1_Witness ==
    /\ Returned /\ gdays = MaxDays /\ Len(gtasks) > gdays
    /\ \A d \in 1..gdays : \E i \in DOMAIN daily_plans : daily_plans[i].day = d

Max0(n) == IF n > 0 THEN n ELSE 0

\* C2: for a non-empty task list and H > 0 the returned list has exactly
\* H + max(0, len(tasks) - H) entries, whatever the random draws.
C2_ResultLength ==
    (Returned /\ ValidInput) =>
        Len(daily_plans) = gdays + Max0(Len(gtasks) - gdays)

\* runs with a surplus (more tasks than days) and without one have returned
C2_Witness ==
    /\ Returned /\ ValidInput
    /\ Len(gtasks) > gdays
    /\ Len(daily_plans) = Len(gtasks)

\* C7: every entry of the returned list carries an integer point value in 1..5.
C7_PointsInRange ==
    Returned => \A i \in DOMAIN daily_plans : daily_plans[i].points \in 1..5

\* a returned list holds both ends of the range
C7_Witness ==
    /\ Returned
    /\ \E i, j \in DOMAIN daily_plans : daily_plans[i].points = 1 /\ daily_plans[j].points = 5

------------------------------------------------------------------------------
\* Properties of the handlers and the store (checked under Spec).

Done(p, op) == pc[p] = "done" /\ req[p].op = op
\* the request was answered by the handler itself, not cut short by the store
Answered(p) == resp[p].exc # "APIError"

\* history: the rows the suggest_plans_v2 call that created goal g wrote
PlansIdsBy(g) == {i \in DOMAIN plans_ids_by : plans_ids_by[i] = g}
TasksIdsBy(g) == {i \in DOMAIN tasks_ids_by : tasks_ids_by[i] = g}

\* the plan entries (with their tasks, as get_today_plans presents them) that the
\* call that created goal g stored for a day
PlanOf(g, day) ==
    LET ids == UNION {Range(plans_ids[i].plans_ids) : i \in PlansIdsBy(g)}
        rows == SelectSeq(plans, LAMBDA r : r.id \in ids /\ r.day = day)
    IN  [i \in DOMAIN rows |->
            LET t == CHOOSE t \in Range(tasks) : t.id = rows[i].task_id
            IN  [task |-> t.task, point |-> t.point]]

\* C3: once accept_plan has been called with the handles one suggest_plans_v2 call
\* returned for goal G, get_today_plans returns, for any day, exactly the plan
\* entries of that call, whatever other suggest / accept calls are interleaved.
C3_ResolveByHandles ==
    \A p \in Procs :
        (Done(p, "today") /\ "day" \in DOMAIN req[p].body /\ Answered(p)) =>
            \A g \in req[p].after :
                resp[p] = Ok([day |-> req[p].body.day,
                              plans_today |-> PlanOf(g, req[p].body.day)])

\* C4: every goals_relations row references a tasks_ids row and a plans_ids row
\* written by one suggest_plans_v2 call, the call that created the row's goal.
C4_RelationFromOneCall ==
    \A i \in DOMAIN goals_relations :
        /\ goals_relations[i].tasks_ids_id \in TasksIdsBy(goals_relations[i].goal_id)
        /\ goals_relations[i].plans_ids_id \in PlansIdsBy(goals_relations[i].goal_id)

\* C5: for every goal, the total get_points computes is the sum of the
\* total_points of the submit calls recorded for it, in whatever order and
\* between whatever other requests they were made.
C5_TotalIsSumOfSubmits ==
    \A g \in 1..Len(goals) : TotalPoints(g) = submitted[g]

\* submits of 5 and of 3 were recorded, and get_points answered 8
C5_Witness ==
    /\ Len(progress) = 2 /\ progress[1].total_points # progress[2].total_points
    /\ \E p \in Procs : Done(p, "points") /\ resp[p] = Ok([points |-> 8])

\* goals created after g that are accepted
LaterAccepted(g) ==
    {h \in DOMAIN goals : goals[h].created_at > goals[g].created_at /\ goals[h].status = Accepted}

C8_ReferencesExist ==
    /\ \A i \in DOMAIN tasks : \E g \in DOMAIN goals : goals[g].id = tasks[i].goal_id
    /\ \A i \in DOMAIN plans : \E t \in DOMAIN tasks : tasks[t].id = plans[i].task_id

\* a suggest_plans_v2 call failed part-way, leaving tasks without plans, next to
\* a goal whose plans were stored
C8_Witness ==
    /\ \E p \in Procs : Done(p, "suggest") /\ resp[p].status = 500
    /\ plans # <<>>
    /\ \E i \in DOMAIN tasks : \A j \in DOMAIN plans : plans[j].task_id # tasks[i].id

\* C9: a plan request with an empty task list is answered with the 400
\* validation outcome: never a plan, never the generic 500 failure (the store
\* working).
C9_EmptyTasksInvalid ==
    \A p \in Procs :
        (Done(p, "suggest") /\ SuggestHasFields(req[p].body) /\ req[p].body.tasks = <<>>
            /\ Answered(p)) =>
            resp[p].status = 400

\* C10: when no goal matches, or the current goal has no association record,
\* check_goal, get_today_plans, get_points, submit and accept_plan answer with an
\* outcome that differs from the one used for store failures.
C10_NotFoundDistinct ==
    \A p \in Procs :
        (pc[p] = "done" /\ resp[p].exc = "IndexError"
            /\ req[p].op \in {"check_goal", "today", "points", "submit", "accept"}) =>
            resp[p].status # Caught("APIError").status

\* C11: each successful submit call appends exactly one progress row, for the goal
\* it resolved as current, and no step updates, merges or removes an existing
\* row: get_points' total for that goal grows by the submitted value, also when
\* the same day is submitted again.
C11_SubmitAppendsOneRow ==
    [][/\ Len(progress') >= Len(progress)
       /\ SubSeq(progress', 1, Len(progress)) = progress
       /\ \A p \in Procs :
             (pc[p] = "u_insert" /\ pc'[p] = "done" /\ resp'[p].status = 200) =>
                 /\ Len(progress') = Len(progress) + 1
                 /\ progress'[Len(progress')].goal_id = loc[p].goal_id
                 /\ progress'[Len(progress')].day = req[p].body.day
                 /\ progress'[Len(progress')].total_points = req[p].body.total_points
                 /\ \E g \in DOMAIN goals :
                       /\ g = loc[p].goal_id
                       /\ TotalPoints(g)' = TotalPoints(g) + req[p].body.total_points]_vars

\* one day was submitted twice for one goal: two rows, and get_points counted both
C11_Witness ==
    /\ Len(progress) = 2
    /\ progress[1].goal_id = progress[2].goal_id /\ progress[1].day = progress[2].day
    /\ \E p \in Procs :
          /\ Done(p, "points")
          /\ resp[p] = Ok([points |-> progress[1].total_points + progress[2].total_points])

------------------------------------------------------------------------------
\* Further properties of generate_daily_plans (checked under SpecGen).

\* C12: called with a horizon days <= 0, generate_daily_plans fails for every
\* task list, the empty one included: it never returns a plan.
C12_NonPositiveDaysFail ==
    gdays <= 0 => ~Returned

\* C15: the returned list is grouped by day: for a non-empty task list and H > 0
\* (more tasks than days included), the entries of one day are contiguous.
C15_GroupedByDay ==
    (Returned /\ ValidInput) =>
        \A i, j, k \in DOMAIN daily_plans :
            (i < j /\ j < k /\ daily_plans[i].day = daily_plans[k].day) =>
                daily_plans[j].day = daily_plans[i].day

------------------------------------------------------------------------------
\* Further properties of the handlers and the store (checked under Spec).

\* C13: a goal undergoes at most one accepted transition: over any sequence of
\* accept_plan calls, the status update and the insertion of an association
\* record are applied to a given goal at most once.
\* (accept_plan inserts the record right after the update, so a goal with two
\* records was updated twice.)
C13_AcceptedAtMostOnce ==
    \A g \in DOMAIN goals :
        Cardinality({i \in DOMAIN goals_relations : goals_relations[i].goal_id = goals[g].id}) <= 1

\* the plans rows a plans_ids row lists
PlansListed(i) == {r \in Range(plans) : r.id \in Range(plans_ids[i].plans_ids)}

\* C14: the plan set suggest_plans_v2 stores for a non-empty task list (the plans
\* rows listed in its plans_ids row) has at least one entry for every day 1..7 of
\* the default horizon.
C14_StoredPlanCoversHorizon ==
    \A i \in DOMAIN plans_ids :
        \A d \in 1..DefaultDays : \E r \in PlansListed(i) : r.day = d

\* the suggest_plans_v2 call that created goal g is past its first write and
\* not yet over
InFlightFor(g) ==
    \E p \in Procs :
        /\ pc[p] \in {"s_tasks", "s_tasks_ids", "s_plans", "s_plans_ids"}
        /\ loc[p].goal.id = g

\* the goals whose suggest_plans_v2 call failed part-way: it is over and wrote
\* no plans_ids row, its last write
FailedGoals == {g \in DOMAIN goals : PlansIdsBy(g) = {} /\ ~InFlightFor(g)}

\* what the call that created goal g has written to each table
TasksOfGoal(g) == SelectSeq(tasks, LAMBDA r : r.goal_id = g)
PlansOfGoal(g) ==
    SelectSeq(plans, LAMBDA r : \E t \in Range(TasksOfGoal(g)) : t.id = r.task_id)
WrittenFor(g) ==
    <<goals[g].item_name, goals[g].item_points, TasksOfGoal(g),
      {tasks_ids[i] : i \in TasksIdsBy(g)}, PlansOfGoal(g),
      {plans_ids[i] : i \in PlansIdsBy(g)}>>

\* C16: when suggest_plans_v2 fails at a step of its write sequence, what it wrote
\* before stays in the store (no rollback, no compensating delete), it writes
\* nothing after, and no goals_relations row references the tasks_ids and
\* plans_ids rows it left.
C16_FailedSuggestLeavesOrphans ==
    [][/\ \A g \in DOMAIN goals :
             /\ g \in DOMAIN goals'
             /\ Len(TasksOfGoal(g)') >= Len(TasksOfGoal(g))
             /\ SubSeq(TasksOfGoal(g)', 1, Len(TasksOfGoal(g))) = TasksOfGoal(g)
             /\ Len(PlansOfGoal(g)') >= Len(PlansOfGoal(g))
             /\ SubSeq(PlansOfGoal(g)', 1, Len(PlansOfGoal(g))) = PlansOfGoal(g)
             /\ WrittenFor(g)[4] \subseteq WrittenFor(g)'[4]
             /\ WrittenFor(g)[6] \subseteq WrittenFor(g)'[6]
             /\ g \in FailedGoals => WrittenFor(g)' = WrittenFor(g)
       /\ \A g \in DOMAIN goals' :
             g \in FailedGoals' =>
                 \A i \in DOMAIN goals_relations' :
                     /\ goals_relations'[i].tasks_ids_id \notin TasksIdsBy(g)'
                     /\ goals_relations'[i].plans_ids_id \notin PlansIdsBy(g)']_vars

\* the id-list rows that some goals_relations row references
ReferencedPlansIds ==
    SelectSeq(plans_ids, LAMBDA r : \E i \in DOMAIN goals_relations :
                                        goals_relations[i].plans_ids_id = r.id)
ReferencedTasksIds ==
    SelectSeq(tasks_ids, LAMBDA r : \E i \in DOMAIN goals_relations :
                                        goals_relations[i].tasks_ids_id = r.id)
Orphans ==
    {r \in Range(plans_ids) : r \notin Range(ReferencedPlansIds)}
        \cup {r \in Range(tasks_ids) : r \notin Range(ReferencedTasksIds)}

\* C17: id-list rows that no goals_relations row references are inert: what
\* get_today_plans reads from plans_ids is what it would read with those rows
\* absent (its read goes through a goals_relations row found first), and the
\* answers of check_goal and get_points are determined by the goals and progress
\* rows alone (those that were there when they were read).
C17_OrphansInert ==
    \A p \in Procs :
        /\ pc[p] = "t_plans_ids" =>
              PlansIdsWithId(loc[p].plans_ids_id)
                  = SelectSeq(ReferencedPlansIds, LAMBDA r : r.id = loc[p].plans_ids_id)
        /\ pc[p] = "t_plans" =>
              \E r \in Range(ReferencedPlansIds) : r.plans_ids = loc[p].plans_ids
        /\ (Done(p, "check_goal") /\ resp[p].status = 200) =>
              \E g \in Range(goals) :
                  resp[p].body = [goal |-> g.item_name, goal_points |-> g.item_points]
        /\ (Done(p, "points") /\ resp[p].status = 200) =>
              \E g \in DOMAIN goals, n \in 0..Len(progress) :
                  /\ n <= Len(ProgressOf(g))
                  /\ resp[p].body = [points |-> SumPoints(SubSeq(ProgressOf(g), 1, n))]

\* get_today_plans answered with a plan while an id-list row that no
\* goals_relations row references was in the store
C17_Witness ==
    /\ Orphans # {}
    /\ \E p \in Procs :
          /\ Done(p, "today") /\ resp[p].status = 200
          /\ resp[p].body.plans_today # <<>>

\* the ids of a sequence of rows
Ids(rows) == [i \in DOMAIN rows |-> rows[i].id]

\* C18: under any interleaving of concurrent suggest_plans_v2 calls, the
\* tasks_ids row a call writes lists exactly the ids of the tasks rows that call
\* inserted (all owned by the goal it created), and its plans_ids row lists
\* exactly the ids of the plans rows it inserted, each of which references one of
\* its tasks.
C18_IdListsOfOwnRows ==
    /\ \A i \in DOMAIN tasks_ids :
          tasks_ids[i].tasks_ids = Ids(TasksOfGoal(tasks_ids_by[i]))
    /\ \A i \in DOMAIN plans_ids :
          /\ plans_ids[i].plans_ids = Ids(PlansOfGoal(plans_ids_by[i]))
          /\ \A r \in PlansListed(i) :
                r.task_id \in Range(Ids(TasksOfGoal(plans_ids_by[i])))

\* two calls ran interleaved: the one that wrote its tasks_ids row first wrote
\* its plans rows after the other's and its plans_ids row last
C18_Witness ==
    /\ tasks_ids_by = <<1, 2>> /\ plans_ids_by = <<2, 1>>
    /\ plans_ids[1].plans_ids = <<1, 2>> /\ plans_ids[2].plans_ids = <<3, 4>>

\* C19: in every reachable state, between the two writes of accept_plan and
\* after a failure of its second write included, every goal whose status is
\* accepted has at least one goals_relations row.
C19_AcceptedHasRelation ==
    \A g \in DOMAIN goals :
        goals[g].status = Accepted =>
            \E i \in DOMAIN goals_relations : goals_relations[i].goal_id = goals[g].id

\* the steps of the endpoints that only read
ReadSteps ==
    {"c_goal", "t_goal", "t_relation", "t_plans_ids", "t_plans", "t_task", "p_goal", "p_progress"}

\* C20: a request answered with the 400 'Invalid data format' outcome leaves
\* every table unchanged, and no step of check_goal, get_today_plans or
\* get_points modifies a table.
C20_RejectedAndReadsLeaveStore ==
    [][\A p \in Procs :
          /\ (pc[p] = "idle" /\ pc'[p] = "done" /\ resp'[p].status = 400) =>
                storevars' = storevars
          /\ (<<pc[p], loc[p], req[p]>>' # <<pc[p], loc[p], req[p]>>
                /\ (pc[p] \in ReadSteps \/ req'[p].op \in Readers)) =>
                storevars' = storevars]_vars

\* a request was rejected for a missing field while the store held a goal and
\* a progress row
C20_Witness ==
    /\ goals # <<>> /\ progress # <<>>
    /\ \E p \in Procs : pc[p] = "done" /\ resp[p] = InvalidData /\ req[p].op = "submit"

====
